---- MODULE Spec2Model ----
(***************************************************************************)
(* Model of src/app.py: a Flask backend over three PostgreSQL tables       *)
(* (members, transactions, expenses), a Mercado Pago webhook that links a  *)
(* payer to a member by fuzzy name matching, and a monthly report.         *)
(*                                                                         *)
(* Money is counted in thousandths of the currency unit ("mills"), so that *)
(* a NUMERIC(10,2) column holds multiples of 10 and a request can carry a  *)
(* value with a third decimal.                                             *)
(***************************************************************************)
EXTENDS Integers, Sequences, FiniteSets, TLC

VARIABLES
    sdk,              \* TRUE iff MP_ACCESS_TOKEN was set (the SDK object exists)
    members,          \* table members: id -> [code, full_name]
    next_member_id,   \* the SERIAL sequence of members.id
    transactions,     \* table transactions: id -> row (committed rows)
    next_tx_id,       \* the SERIAL sequence of transactions.id
    expenses,         \* table expenses: id -> row
    next_expense_id,  \* the SERIAL sequence of expenses.id
    log,              \* the "Erro no webhook" lines printed: <<payment id, source>>
    resp,             \* response of the request handled last (sequential handlers)
    wk                \* per worker: the local state of a webhook handler in flight

vars == <<sdk, members, next_member_id, transactions, next_tx_id,
          expenses, next_expense_id, log, resp, wk>>

store == <<members, next_member_id, transactions, next_tx_id,
           expenses, next_expense_id>>

----------------------------------------------------------------------------
(* Bounds of the model. *)

MaxMember == 2        \* member INSERT statements executed in a behaviour
MaxTx == 2            \* transaction INSERT statements executed in a behaviour
MaxExpense == 1       \* expense INSERT statements executed in a behaviour
NumWorkers == 2       \* webhook handlers that can be in flight together

Workers == 1..NumWorkers

----------------------------------------------------------------------------
(* Values. *)

NULL == "NULL"            \* SQL NULL / Python None in a text position
NoId == 0                 \* SQL NULL / Python None in an id position
Threshold == 85           \* "if match and match[1] >= 85"

PaymentIds == {"p1", "p2"}
Types == {"dizimo", "oferta"}
MemberNames == {"Joao Silva", "JOAO SILVA", "Maria Souza"}
LedgerNames == {"Joao Silva", "Maria Souza"}
Codes == {"M1", "M2"}

Feb24 == [y |-> 2024, m |-> 2]
Jan25 == [y |-> 2025, m |-> 1]
Feb25 == [y |-> 2025, m |-> 2]
CURRENT_DATE == Feb25     \* the clock of the database server: NOW(), CURRENT_DATE

Range(f) == {f[i] : i \in DOMAIN f}

(* All enumerations (orders) of a finite set, as sequences. *)
Perms(S) ==
    {s \in [1..Cardinality(S) -> S] : \A i, j \in 1..Cardinality(S) : s[i] = s[j] => i = j}

(* f without the key k; f with the key k bound to v. *)
Drop(f, k) == [i \in DOMAIN f \ {k} |-> f[i]]
Put(f, k, v) == [i \in DOMAIN f \cup {k} |-> IF i = k THEN v ELSE f[i]]

RECURSIVE SumOver(_, _)
SumOver(f, S) ==
    IF S = {} THEN 0
    ELSE LET k == CHOOSE i \in S : TRUE IN f[k] + SumOver(f, S \ {k})

----------------------------------------------------------------------------
(* NUMERIC(10, 2): a value is rounded to two decimals when it is stored    *)
(* (PostgreSQL rounds a numeric half away from zero).                      *)

Numeric2(v) ==
    IF v >= 0 THEN ((v + 5) \div 10) * 10
    ELSE -(((-v + 5) \div 10) * 10)

----------------------------------------------------------------------------
(* The identity resolver of mp_webhook (thefuzz process.extractOne).       *)

(* utils.full_process, the default processor: lower case, trimmed. *)
full_process(s) ==
    CASE s = "Joao Silva" -> "joao silva"
      [] s = "JOAO SILVA" -> "joao silva"
      [] s = "Maria Souza" -> "maria souza"
      [] OTHER -> s

(* fuzz.WRatio, the default scorer, on the processed strings: 100 for equal *)
(* strings; "joao silva" against "maria souza" has a longest common         *)
(* subsequence of 4 in 21 characters, ratio 38, and no common token.        *)
WRatio(a, b) == IF a = b THEN 100 ELSE 38

Score(query, choice) == WRatio(full_process(query), full_process(choice))

(* f"{first} {last}".strip() *)
PayerName(payer) ==
    IF payer.first_name = "" THEN payer.last_name
    ELSE IF payer.last_name = "" THEN payer.first_name
    ELSE payer.first_name \o " " \o payer.last_name

(* The keys of {m['full_name']: m['id'] for m in rows}, as positions of rows: *)
(* a dict keeps a key at the position of its first insertion.                 *)
ChoiceKeys(rows) ==
    {i \in 1..Len(rows) : \A j \in 1..(i - 1) : rows[j].full_name # rows[i].full_name}

(* choices[name]: a later row with the same key overwrites the value. *)
ChoiceValueFirst(rows, name) ==
    rows[CHOOSE i \in 1..Len(rows) :
            /\ rows[i].full_name = name
            /\ \A j \in 1..(i - 1) : rows[j].full_name # name].id

ChoiceValue(rows, name) ==
    LET last == CHOOSE i \in 1..Len(rows) :
                    /\ rows[i].full_name = name
                    /\ \A j \in (i + 1)..Len(rows) : rows[j].full_name # name
    IN rows[last].id

(* process.extractOne(payer_name, choices.keys()): the position of the first *)
(* key with the maximum score (0 when there is no key).                      *)
extractOne(query, rows) ==
    IF ChoiceKeys(rows) = {} THEN 0
    ELSE CHOOSE i \in ChoiceKeys(rows) :
            /\ \A j \in ChoiceKeys(rows) :
                   Score(query, rows[j].full_name) <= Score(query, rows[i].full_name)
            /\ \A j \in ChoiceKeys(rows) :
                   j < i => Score(query, rows[j].full_name) < Score(query, rows[i].full_name)

(* best_match_id of lines 125-132. *)
BestMatchAnyScore(payer_name, rows) ==
    IF Len(rows) = 0 THEN NoId
    ELSE ChoiceValue(rows, rows[extractOne(payer_name, rows)].full_name)

BestMatchId(payer_name, rows) ==
    IF Len(rows) = 0 THEN NoId
    ELSE LET match == extractOne(payer_name, rows) IN
         IF match # 0 /\ Score(payer_name, rows[match].full_name) >= Threshold
         THEN ChoiceValue(rows, rows[match].full_name)
         ELSE NoId

(* The rows "SELECT id, full_name FROM members" can return: the table in any *)
(* order (the statement has no ORDER BY).                                    *)
SelectMembers ==
    {[i \in 1..Len(p) |-> [id |-> p[i], full_name |-> members[p[i]].full_name]] :
        p \in Perms(DOMAIN members)}

(* The same rows in the order of the ids (the order of insertion). *)
SelectMembersById ==
    {r \in SelectMembers : \A i, j \in 1..Len(r) : i < j => r[i].id < r[j].id}

----------------------------------------------------------------------------
(* Statements on the store. *)

HasMpId(txs, mp_id) == \E i \in DOMAIN txs : txs[i].mp_id = mp_id

(* The row the webhook inserts (lines 135-139). *)
PixRow(payment_id, payer_name, best_match_id, payment) ==
    [mp_id |-> payment_id, payer_name |-> payer_name, member_id |-> best_match_id,
     amount |-> Numeric2(payment.transaction_amount),
     transaction_date |-> payment.date_created,
     status |-> "pendente", origin |-> "pix", type |-> NULL]

(* Faulty variants of the insert: a plain INSERT on a column that is not   *)
(* UNIQUE, and ON CONFLICT (mp_id) DO UPDATE (an upsert).                  *)
InsertAlways(txs, id, row) == Put(txs, id, row)

InsertOrReplace(txs, id, row) ==
    IF HasMpId(txs, row.mp_id)
    THEN [i \in DOMAIN txs |-> IF txs[i].mp_id = row.mp_id THEN row ELSE txs[i]]
    ELSE Put(txs, id, row)

InsertOrRelink(txs, id, row) ==
    IF HasMpId(txs, row.mp_id)
    THEN [i \in DOMAIN txs |->
             IF txs[i].mp_id = row.mp_id
             THEN [txs[i] EXCEPT !.member_id = row.member_id] ELSE txs[i]]
    ELSE Put(txs, id, row)

(* INSERT ... ON CONFLICT (mp_id) DO NOTHING against the committed rows. *)
InsertIfAbsent(txs, id, row) ==
    IF HasMpId(txs, row.mp_id) THEN txs ELSE Put(txs, id, row)

(* The row of action manual_add (lines 228-231). *)
ManualRowPending(name, amount, type) ==
    [mp_id |-> NULL, payer_name |-> name, member_id |-> NoId,
     amount |-> Numeric2(amount), transaction_date |-> CURRENT_DATE,
     status |-> "pendente", origin |-> "manual", type |-> type]

ManualRow(name, amount, type) ==
    [mp_id |-> NULL, payer_name |-> name, member_id |-> NoId,
     amount |-> Numeric2(amount), transaction_date |-> CURRENT_DATE,
     status |-> "confirmado", origin |-> "manual", type |-> type]

(* UPDATE transactions SET type = %s, status = 'confirmado' WHERE id = %s *)
ConfirmUpdate(txs, id, type) ==
    [i \in DOMAIN txs |->
        IF i = id THEN [txs[i] EXCEPT !.type = type, !.status = "confirmado"]
        ELSE txs[i]]

(* member_id ... REFERENCES members(id) ON DELETE SET NULL *)
OnDeleteSetNullAll(txs, m_id) ==
    [i \in DOMAIN txs |-> [txs[i] EXCEPT !.member_id = NoId]]

OnDeleteCascade(txs, m_id) ==
    [i \in {j \in DOMAIN txs : txs[j].member_id # m_id} |-> txs[i]]

OnDeleteSetNull(txs, m_id) ==
    [i \in DOMAIN txs |->
        IF txs[i].member_id = m_id THEN [txs[i] EXCEPT !.member_id = NoId]
        ELSE txs[i]]

----------------------------------------------------------------------------
(* Requests and the gateway. *)

(* The webhook body: data.get("type"), data.get("action"), data["data"]["id"]. *)
Notifications ==
    [type : {"payment", "merchant_order"},
     action : {"payment.created", "payment.updated"},
     id : PaymentIds \cup {NULL}]

IsPaymentEvent(data) == data.type = "payment" \/ data.action = "payment.created"

(* sdk.payment().get(payment_id): the call raises (GatewayError, whose other *)
(* fields are never read), or returns the payment with its status, payer,    *)
(* amount and creation date.                                                 *)
Payers == {[first_name |-> "Joao", last_name |-> "Silva"],
           [first_name |-> "", last_name |-> "Joao Silva"]}

GatewayError ==
    [status |-> "error", payer |-> [first_name |-> "", last_name |-> ""],
     transaction_amount |-> 0, date_created |-> CURRENT_DATE]

GatewayReplies(amounts, dates) ==
    {GatewayError} \cup
    [status : {"approved", "pending", "rejected"}, payer : Payers,
     transaction_amount : amounts, date_created : dates]

(* The handler goes on to the store only when the fetch returned a payment *)
(* whose status is 'approved' (lines 105-108).                             *)
ProceedsUnlessRaised(gw) == gw.status # "error"
ProceedsWhenFetchRaised(gw) == gw.status \in {"approved", "error"}

Proceeds(gw) == gw.status = "approved"

(* The HTTP status of the answer: 500 without the SDK (line 91), 200 on   *)
(* every other path (lines 101 and 146; the except clause of line 143      *)
(* absorbs what the try block raises).                                     *)
HttpWithoutExcept(outcome) ==
    IF outcome \in {"sdk", "fetch_failed", "store_failed"} THEN 500 ELSE 200

HttpOf(outcome) == IF outcome = "sdk" THEN 500 ELSE 200

WebhookResp(outcome, data, status, fetches, rows) ==
    [op |-> "mp_webhook", http |-> HttpOf(outcome), outcome |-> outcome, data |-> data,
     status |-> status, fetches |-> fetches, rows |-> rows]

OpResp(op, http) == [op |-> op, http |-> http]

----------------------------------------------------------------------------
(* mp_webhook handled without interleaving (lines 89-146).                  *)
(*   data     the notification                                              *)
(*   gw       what the gateway answers to the detail fetch                  *)
(*   conn_ok  whether get_db_connection() succeeds                          *)
(*   rows     what SELECT id, full_name FROM members returns                *)

mp_webhook(data, gw, conn_ok, rows) ==
    /\ UNCHANGED <<sdk, members, next_member_id, expenses, next_expense_id, wk>>
    /\ IF ~sdk
       THEN /\ resp' = WebhookResp("sdk", data, "none", 0, <<>>)
            /\ UNCHANGED <<transactions, next_tx_id, log>>
       ELSE IF ~IsPaymentEvent(data)
       THEN /\ resp' = WebhookResp("not_payment", data, "none", 0, <<>>)
            /\ UNCHANGED <<transactions, next_tx_id, log>>
       ELSE IF data.id = NULL
       THEN /\ resp' = WebhookResp("no_id", data, "none", 0, <<>>)
            /\ UNCHANGED <<transactions, next_tx_id, log>>
       ELSE IF ~Proceeds(gw)
       THEN /\ resp' = WebhookResp(IF gw.status = "error" THEN "fetch_failed"
                                                           ELSE "not_approved",
                                   data, gw.status, 1, <<>>)
            /\ log' = IF gw.status = "error" THEN log \cup {<<data.id, "gateway">>} ELSE log
            /\ UNCHANGED <<transactions, next_tx_id>>
       ELSE IF ~conn_ok
       THEN /\ resp' = WebhookResp("store_failed", data, gw.status, 1, <<>>)
            /\ log' = log \cup {<<data.id, "store">>}
            /\ UNCHANGED <<transactions, next_tx_id>>
       ELSE /\ next_tx_id <= MaxTx
            /\ transactions' =
                   InsertIfAbsent(transactions, next_tx_id,
                       PixRow(data.id, PayerName(gw.payer),
                              BestMatchId(PayerName(gw.payer), rows), gw))
            /\ next_tx_id' = next_tx_id + 1
            /\ resp' = WebhookResp(IF HasMpId(transactions, data.id) THEN "duplicate" ELSE "inserted",
                           data, gw.status, 1, rows)
            /\ UNCHANGED log

----------------------------------------------------------------------------
(* manage_members (lines 175-201). *)

(* POST: INSERT INTO members (code, full_name, birth_date); code is UNIQUE, *)
(* and a violation is an unhandled IntegrityError (HTTP 500).               *)
manage_members_POST(code, full_name) ==
    /\ next_member_id <= MaxMember
    /\ next_member_id' = next_member_id + 1
    /\ IF \E i \in DOMAIN members : members[i].code = code
       THEN /\ UNCHANGED members
            /\ resp' = OpResp("members_POST", 500)
       ELSE /\ members' = Put(members, next_member_id,
                               [code |-> code, full_name |-> full_name])
            /\ resp' = OpResp("members_POST", 200)
    /\ UNCHANGED <<sdk, transactions, next_tx_id, expenses, next_expense_id, log, wk>>

(* A handler's uncommitted transaction row references member m_id: the   *)
(* foreign key holds a share lock on the member, and a DELETE of it waits. *)
ReferencedUncommitted(m_id) ==
    \E w \in Workers :
        wk[w].pc = "commit" /\ wk[w].inserted /\ wk[w].row.member_id = m_id

(* DELETE: DELETE FROM members WHERE id = %s, with ON DELETE SET NULL. *)
DeleteMember(m_id) ==
    /\ members' = Drop(members, m_id)
    /\ transactions' = IF m_id \in DOMAIN members
                          THEN OnDeleteSetNull(transactions, m_id)
                          ELSE transactions

manage_members_DELETE(m_id) ==
    /\ ~ReferencedUncommitted(m_id)
    /\ DeleteMember(m_id)
    /\ resp' = OpResp("members_DELETE", 200)
    /\ UNCHANGED <<sdk, next_member_id, next_tx_id, expenses, next_expense_id, log, wk>>

----------------------------------------------------------------------------
(* manage_transactions, POST (lines 220-234). *)

manage_transactions_confirm(id, type) ==
    /\ transactions' = ConfirmUpdate(transactions, id, type)
    /\ resp' = OpResp("transactions_confirm", 200)
    /\ UNCHANGED <<sdk, members, next_member_id, next_tx_id, expenses,
                   next_expense_id, log, wk>>

manage_transactions_manual_add(name, amount, type) ==
    /\ next_tx_id <= MaxTx
    /\ transactions' = Put(transactions, next_tx_id, ManualRow(name, amount, type))
    /\ next_tx_id' = next_tx_id + 1
    /\ resp' = OpResp("transactions_manual_add", 200)
    /\ UNCHANGED <<sdk, members, next_member_id, expenses, next_expense_id, log, wk>>

----------------------------------------------------------------------------
(* manage_expenses (lines 240-267). *)

ExpenseRow(description, category, amount, date) ==
    [description |-> description, category |-> category,
     amount |-> Numeric2(amount), expense_date |-> date]

manage_expenses_POST(description, category, amount, date) ==
    /\ next_expense_id <= MaxExpense
    /\ expenses' = Put(expenses, next_expense_id,
                        ExpenseRow(description, category, amount, date))
    /\ next_expense_id' = next_expense_id + 1
    /\ resp' = OpResp("expenses_POST", 200)
    /\ UNCHANGED <<sdk, members, next_member_id, transactions, next_tx_id, log, wk>>

manage_expenses_DELETE(e_id) ==
    /\ expenses' = Drop(expenses, e_id)
    /\ resp' = OpResp("expenses_DELETE", 200)
    /\ UNCHANGED <<sdk, members, next_member_id, transactions, next_tx_id,
                   next_expense_id, log, wk>>

----------------------------------------------------------------------------
(* generate_report (lines 269-361). Amounts are counted in thousandths of    *)
(* the currency unit, so that a prev_balance with three decimals (the value  *)
(* is float(data['prev_balance']), any number) can be told from its          *)
(* rendering with two.                                                       *)

Abs(v) == IF v >= 0 THEN v ELSE -v

(* The totals of lines 301-303 are binary doubles. Amounts with two decimals *)
(* and multiples of 0.125 add up, in the ranges of this model, to the double *)
(* nearest to the decimal sum. When that sum ends in 5 thousandths the       *)
(* double is the sum itself for a multiple of 0.125 and otherwise lies just  *)
(* above or just below it: above for these magnitudes (0.135 = 0.125 + 0.01, *)
(* 119.855 = 120 - 0.145, 239.865 = 240 - 0.135), below for the other sums   *)
(* the model reaches (as CPython computes them).                             *)
DoubleAboveTie == {135, 119855, 239865}

(* f"{x:.2f}" of lines 315-318, in hundredths: the double is rounded to the  *)
(* nearest hundredth, an exact tie going to the even one.                    *)
Format2f(v) ==
    LET q == Abs(v) \div 10
        r == Abs(v) % 10
        c == IF r < 5 THEN q
             ELSE IF r > 5 THEN q + 1
             ELSE IF Abs(v) % 125 = 0 THEN (IF q % 2 = 0 THEN q ELSE q + 1)
             ELSE IF Abs(v) \in DoubleAboveTie THEN q + 1
             ELSE q
    IN IF v >= 0 THEN c ELSE -c

(* WHERE status = 'confirmado' AND month AND year of transaction_date *)
InflowsAnyStatus(month, year) ==
    {i \in DOMAIN transactions :
        transactions[i].transaction_date = [y |-> year, m |-> month]}

Inflows(month, year) ==
    {i \in DOMAIN transactions :
        /\ transactions[i].status = "confirmado"
        /\ transactions[i].transaction_date = [y |-> year, m |-> month]}

(* WHERE month AND year of expense_date *)
Outflows(month, year) ==
    {i \in DOMAIN expenses : expenses[i].expense_date = [y |-> year, m |-> month]}

AmountOf(table) == [i \in DOMAIN table |-> table[i].amount]

(* The "Valor" column of the two tables (lines 332-355): one cell for each   *)
(* row the SELECT returned, the amount as it is printed (in hundredths).     *)
InflowTableWithPending(month, year) ==
    [i \in InflowsAnyStatus(month, year) |-> Format2f(transactions[i].amount)]

InflowTable(month, year) ==
    [i \in Inflows(month, year) |-> Format2f(transactions[i].amount)]

OutflowTable(month, year) ==
    [i \in Outflows(month, year) |-> Format2f(expenses[i].amount)]

(* The statement: the four lines of the summary block (315-318), each amount *)
(* as it is printed (in hundredths), and the two tables.                     *)
generate_report(month, year, prev_balance) ==
    LET total_in == SumOver(AmountOf(transactions), Inflows(month, year))
        total_out == SumOver(AmountOf(expenses), Outflows(month, year))
        final_balance == (prev_balance + total_in) - total_out
    IN /\ resp' = [op |-> "generate_report", http |-> 200,
                   month |-> month, year |-> year,
                   prev_balance |-> Format2f(prev_balance),
                   total_in |-> Format2f(total_in),
                   total_out |-> Format2f(total_out),
                   final_balance |-> Format2f(final_balance),
                   inflow_table |-> InflowTable(month, year),
                   outflow_table |-> OutflowTable(month, year)]
       /\ UNCHANGED <<sdk, members, next_member_id, transactions, next_tx_id,
                      expenses, next_expense_id, log, wk>>

----------------------------------------------------------------------------
(* get_dashboard (lines 150-173): the sums of the rows whose date has the    *)
(* month of CURRENT_DATE (the statements compare EXTRACT(MONTH ...) only),   *)
(* added as NUMERIC values and converted to float for the JSON answer.       *)

DashboardInflows ==
    {i \in DOMAIN transactions :
        /\ transactions[i].status = "confirmado"
        /\ transactions[i].transaction_date.m = CURRENT_DATE.m}

DashboardOutflows ==
    {i \in DOMAIN expenses : expenses[i].expense_date.m = CURRENT_DATE.m}

get_dashboard ==
    LET inflow == SumOver(AmountOf(transactions), DashboardInflows)
        outflow == SumOver(AmountOf(expenses), DashboardOutflows)
    IN /\ resp' = [op |-> "get_dashboard", http |-> 200,
                   inflow |-> inflow, outflow |-> outflow,
                   balance |-> inflow - outflow]
       /\ UNCHANGED <<sdk, members, next_member_id, transactions, next_tx_id,
                      expenses, next_expense_id, log, wk>>

----------------------------------------------------------------------------
(* The state after start-up: create_tables has run (lines 36-86), the       *)
(* tables are empty and no request is in flight.                            *)

IdleWorker == [pc |-> "idle"]

InitStore ==
    /\ members = <<>>
    /\ next_member_id = 1
    /\ transactions = <<>>
    /\ next_tx_id = 1
    /\ expenses = <<>>
    /\ next_expense_id = 1
    /\ log = {}
    /\ resp = OpResp("none", 0)
    /\ wk = [w \in Workers |-> IdleWorker]

(* MP_ACCESS_TOKEN is set or not (line 20). *)
Init == sdk \in BOOLEAN /\ InitStore

(* A deployment with the gateway token set. *)
InitConfigured == sdk = TRUE /\ InitStore

----------------------------------------------------------------------------
(* Spec: the ledger under every operation, each request handled without     *)
(* interleaving. The notifications are payment events whose detail fetch    *)
(* succeeds with an approved payment, the store is reachable and the roster *)
(* is read in id order; the other deliveries are those of SpecWebhook.      *)

LedgerAmounts == {100000}
LedgerDates == {Feb25}
ApprovedReplies(amounts, dates) ==
    {gw \in GatewayReplies(amounts, dates) :
        gw.status = "approved" /\ gw.payer.first_name = "Joao"}
PaymentEvents == {data \in Notifications :
                    data.type = "payment" /\ data.action = "payment.created" /\ data.id # NULL}

Next ==
    \/ \E data \in PaymentEvents, gw \in ApprovedReplies(LedgerAmounts, LedgerDates),
          rows \in SelectMembersById :
            mp_webhook(data, gw, TRUE, rows)
    \/ \E code \in Codes, full_name \in LedgerNames : manage_members_POST(code, full_name)
    \/ \E m_id \in 1..MaxMember : manage_members_DELETE(m_id)
    \/ \E id \in 1..MaxTx, type \in Types : manage_transactions_confirm(id, type)
    \/ \E amount \in LedgerAmounts, type \in Types :
            manage_transactions_manual_add("Maria Souza", amount, type)
    \/ \E amount \in LedgerAmounts, date \in LedgerDates :
            manage_expenses_POST("Luz", "Contas", amount, date)
    \/ \E e_id \in 1..MaxExpense : manage_expenses_DELETE(e_id)

Spec == InitConfigured /\ [][Next]_vars

----------------------------------------------------------------------------
(* SpecWebhook: every kind of delivery (any notification, any gateway       *)
(* answer, store reachable or not, gateway token set or not), with the      *)
(* operator adding and confirming transactions in between.                  *)

WebhookAmounts == {100000}
WebhookDates == {Feb25}

NextWebhook ==
    \/ \E data \in Notifications, gw \in GatewayReplies(WebhookAmounts, WebhookDates),
          conn_ok \in BOOLEAN, rows \in SelectMembers :
            mp_webhook(data, gw, conn_ok, rows)
    \/ \E id \in 1..MaxTx, type \in Types : manage_transactions_confirm(id, type)
    \/ \E amount \in WebhookAmounts, type \in Types :
            manage_transactions_manual_add("Maria Souza", amount, type)

SpecWebhook == Init /\ [][NextWebhook]_vars

----------------------------------------------------------------------------
(* SpecRoster: approved payments delivered against a roster that operators  *)
(* change, the roster being read in any order.                              *)

NextRoster ==
    \/ \E data \in PaymentEvents, gw \in ApprovedReplies(WebhookAmounts, WebhookDates),
          conn_ok \in BOOLEAN, rows \in SelectMembers :
            mp_webhook(data, gw, conn_ok, rows)
    \/ \E code \in Codes, full_name \in MemberNames : manage_members_POST(code, full_name)
    \/ \E m_id \in 1..MaxMember : manage_members_DELETE(m_id)

SpecRoster == InitConfigured /\ [][NextRoster]_vars

----------------------------------------------------------------------------
(* SpecReport: transactions and expenses of two months entered, confirmed    *)
(* and deleted, and the monthly statement requested for any period with a    *)
(* previous balance of 0, 0.125 or 1000.00. Payments are dated in the        *)
(* current month or the month before, expenses in the current month or the   *)
(* same month of the year before.                                            *)

ReportAmounts == {10, 500000}
ExpenseAmounts == {120000}
PaymentAmounts == {500000}
PaymentDates == {Jan25, Feb25}
ExpenseDates == {Feb24, Feb25}
ReportPeriods == {Feb24, Jan25, Feb25}
PrevBalances == {0, 125, 1000000}

NextReport ==
    \/ \E data \in PaymentEvents, gw \in ApprovedReplies(PaymentAmounts, PaymentDates),
          rows \in SelectMembersById :
            mp_webhook(data, gw, TRUE, rows)
    \/ \E id \in 1..MaxTx : manage_transactions_confirm(id, "dizimo")
    \/ \E amount \in ReportAmounts :
            manage_transactions_manual_add("Maria Souza", amount, "oferta")
    \/ \E amount \in ExpenseAmounts, date \in ExpenseDates :
            manage_expenses_POST("Luz", "Contas", amount, date)
    \/ \E e_id \in 1..MaxExpense : manage_expenses_DELETE(e_id)
    \/ \E period \in ReportPeriods, prev_balance \in PrevBalances :
            generate_report(period.m, period.y, prev_balance)
    \/ get_dashboard

SpecReport == InitConfigured /\ [][NextReport]_vars

----------------------------------------------------------------------------
(* SpecIntake: rows entered with any amount the requests can carry: a       *)
(* negative one, zero, or a positive one.                                    *)

IntakeAmounts == {-50000, 0, 100000}

NextIntake ==
    \/ \E data \in PaymentEvents, gw \in ApprovedReplies(IntakeAmounts, LedgerDates),
          rows \in SelectMembersById :
            mp_webhook(data, gw, TRUE, rows)
    \/ \E amount \in IntakeAmounts, type \in Types :
            manage_transactions_manual_add("Maria Souza", amount, type)
    \/ \E amount \in IntakeAmounts, date \in LedgerDates :
            manage_expenses_POST("Luz", "Contas", amount, date)
    \/ \E e_id \in 1..MaxExpense : manage_expenses_DELETE(e_id)

SpecIntake == InitConfigured /\ [][NextIntake]_vars

----------------------------------------------------------------------------
(* mp_webhook step by step, for handlers running on several workers. A step *)
(* ends where the handler next touches the gateway or the store.            *)
(*   idle -> fetch -> select -> insert -> commit -> idle                    *)
(* Each handler has its own connection and transaction (READ COMMITTED):    *)
(* its inserted row is in wk[w].row until COMMIT moves it to transactions.  *)

(* Lines 91-101 for a payment event with an id, the gateway token being set. *)
Receive(w, data) ==
    /\ wk[w].pc = "idle"
    /\ sdk /\ IsPaymentEvent(data) /\ data.id # NULL
    /\ wk' = [wk EXCEPT ![w] = [pc |-> "fetch", payment_id |-> data.id]]
    /\ UNCHANGED <<sdk, members, next_member_id, transactions, next_tx_id,
                   expenses, next_expense_id, log, resp>>

(* Lines 103-116: the detail fetch; the handler goes on only for 'approved'. *)
Fetch(w, gw) ==
    /\ wk[w].pc = "fetch"
    /\ IF Proceeds(gw)
       THEN /\ wk' = [wk EXCEPT ![w] =
                        [pc |-> "select", payment_id |-> wk[w].payment_id,
                         payer_name |-> PayerName(gw.payer), payment |-> gw]]
            /\ UNCHANGED log
       ELSE /\ wk' = [wk EXCEPT ![w] = IdleWorker]
            /\ log' = IF gw.status = "error"
                       THEN log \cup {<<wk[w].payment_id, "gateway">>} ELSE log
    /\ UNCHANGED <<sdk, members, next_member_id, transactions, next_tx_id,
                   expenses, next_expense_id, resp>>

(* Lines 118-132: connect, read the roster, resolve the payer. *)
Select(w, conn_ok, rows) ==
    /\ wk[w].pc = "select"
    /\ IF conn_ok
       THEN /\ wk' = [wk EXCEPT ![w] =
                        [pc |-> "insert", payment_id |-> wk[w].payment_id,
                         payer_name |-> wk[w].payer_name, payment |-> wk[w].payment,
                         best_match_id |-> BestMatchId(wk[w].payer_name, rows)]]
            /\ UNCHANGED log
       ELSE /\ wk' = [wk EXCEPT ![w] = IdleWorker]
            /\ log' = log \cup {<<wk[w].payment_id, "store">>}
    /\ UNCHANGED <<sdk, members, next_member_id, transactions, next_tx_id,
                   expenses, next_expense_id, resp>>

(* The unique index on mp_id makes an INSERT wait while another transaction *)
(* holds an uncommitted row with the same mp_id.                            *)
InsertAnyTime(w) == TRUE

InsertMayProceed(w) ==
    \A v \in Workers \ {w} :
        ~(wk[v].pc = "commit" /\ wk[v].inserted /\ wk[v].row.mp_id = wk[w].payment_id)

(* member_id INTEGER REFERENCES members(id): the INSERT is checked against  *)
(* the members committed when it runs.                                      *)
ForeignKeyUnchecked(member_id) == TRUE

ForeignKeyHolds(member_id) == member_id = NoId \/ member_id \in DOMAIN members

(* Lines 135-139: INSERT ... ON CONFLICT (mp_id) DO NOTHING. The statement  *)
(* takes an id from the sequence; it does nothing on a conflict; it raises  *)
(* when member_id references no member (the foreign key), which the         *)
(* handler's except clause logs and absorbs.                                *)
Insert(w) ==
    /\ wk[w].pc = "insert"
    /\ InsertMayProceed(w)
    /\ next_tx_id <= MaxTx
    /\ next_tx_id' = next_tx_id + 1
    /\ IF HasMpId(transactions, wk[w].payment_id)
       THEN /\ wk' = [wk EXCEPT ![w] = [pc |-> "commit", inserted |-> FALSE]]
            /\ UNCHANGED log
       ELSE IF ~ForeignKeyHolds(wk[w].best_match_id)
       THEN /\ wk' = [wk EXCEPT ![w] = IdleWorker]
            /\ log' = log \cup {<<wk[w].payment_id, "store">>}
       ELSE /\ wk' = [wk EXCEPT ![w] =
                        [pc |-> "commit", inserted |-> TRUE, id |-> next_tx_id,
                         row |-> PixRow(wk[w].payment_id, wk[w].payer_name,
                                        wk[w].best_match_id, wk[w].payment)]]
            /\ UNCHANGED log
    /\ UNCHANGED <<sdk, members, next_member_id, transactions,
                   expenses, next_expense_id, resp>>

(* Lines 140-146: COMMIT, close, answer 200. *)
Commit(w) ==
    /\ wk[w].pc = "commit"
    /\ transactions' = IF wk[w].inserted
                          THEN Put(transactions, wk[w].id, wk[w].row)
                          ELSE transactions
    /\ wk' = [wk EXCEPT ![w] = IdleWorker]
    /\ UNCHANGED <<sdk, members, next_member_id, next_tx_id,
                   expenses, next_expense_id, log, resp>>

(* SpecConc: handlers on several workers, interleaved step by step with each *)
(* other, against the empty roster.                                          *)
NextConc ==
    \/ \E w \in Workers, data \in PaymentEvents : Receive(w, data)
    \/ \E w \in Workers, gw \in GatewayReplies(WebhookAmounts, WebhookDates) : Fetch(w, gw)
    \/ \E w \in Workers, conn_ok \in BOOLEAN, rows \in SelectMembers : Select(w, conn_ok, rows)
    \/ \E w \in Workers : Insert(w)
    \/ \E w \in Workers : Commit(w)

SpecConc == InitConfigured /\ [][NextConc]_vars

(* SpecRace: handlers of the deliveries of one payment, interleaved with    *)
(* operators who add and delete members named as the payer.                 *)
RaceEvents == {data \in PaymentEvents : data.id = "p1"}
RaceNames == {"Joao Silva"}

NextRace ==
    \/ \E w \in Workers, data \in RaceEvents : Receive(w, data)
    \/ \E w \in Workers, gw \in ApprovedReplies(WebhookAmounts, WebhookDates) : Fetch(w, gw)
    \/ \E w \in Workers, rows \in SelectMembers : Select(w, TRUE, rows)
    \/ \E w \in Workers : Insert(w)
    \/ \E w \in Workers : Commit(w)
    \/ \E code \in Codes, full_name \in RaceNames : manage_members_POST(code, full_name)
    \/ \E m_id \in 1..MaxMember : manage_members_DELETE(m_id)

SpecRace == InitConfigured /\ [][NextRace]_vars

----------------------------------------------------------------------------
(* Properties of the ledger (Spec). *)

RowsWithMpId(mp_id) == {i \in DOMAIN transactions : transactions[i].mp_id = mp_id}

(* The request handled last was a delivery of an approved payment that      *)
(* reached the insert.                                                      *)
DeliveredApproved ==
    /\ resp.op = "mp_webhook"
    /\ resp.status = "approved"
    /\ resp.outcome \in {"inserted", "duplicate"}

\* C1: no two transaction rows share a non-null external payment id, whatever
\* the sequence of deliveries and operator actions; and once an approved
\* payment has been delivered (one or more times), exactly one row carries
\* its id.
C1_ExactlyOnce ==
    /\ \A i, j \in DOMAIN transactions :
          (transactions[i].mp_id # NULL /\ transactions[i].mp_id = transactions[j].mp_id)
              => i = j
    /\ DeliveredApproved => Cardinality(RowsWithMpId(resp.data.id)) = 1

(* A payment id delivered again: the second INSERT took an id and added no row. *)
C1_Witness ==
    /\ DeliveredApproved
    /\ resp.outcome = "duplicate"
    /\ Cardinality(RowsWithMpId(resp.data.id)) = 1
    /\ next_tx_id = 3

\* C3: a transaction whose status is 'confirmado' keeps that status in every
\* later state (and is still there): no step moves it back to 'pendente'.
C3_ConfirmedStays ==
    [][\A i \in DOMAIN transactions :
          transactions[i].status = "confirmado"
              => /\ i \in DOMAIN transactions'
                 /\ transactions'[i].status = "confirmado"]_vars

(* A confirmed electronic transaction whose payment id was delivered again. *)
C3_Witness ==
    /\ DeliveredApproved
    /\ resp.outcome = "duplicate"
    /\ \E i \in RowsWithMpId(resp.data.id) :
          transactions[i].status = "confirmado" /\ transactions[i].origin = "pix"

\* C4: no step changes the status or the category (type) of a transaction that
\* is already confirmed; in particular the confirm action applied to it is a
\* no-op.
C4_ConfirmedFrozen ==
    [][\A i \in DOMAIN transactions :
          transactions[i].status = "confirmado"
              => /\ i \in DOMAIN transactions'
                 /\ transactions'[i].status = transactions[i].status
                 /\ transactions'[i].type = transactions[i].type]_vars

\* C13: deleting a member sets to null the member reference of the
\* transactions that referenced it and nothing else: no transaction is
\* deleted, every other field of every transaction is unchanged, and so are
\* the transactions that referenced other members.
C13_DeleteNullsReferences ==
    [][resp'.op = "members_DELETE"
          => /\ DOMAIN transactions' = DOMAIN transactions
             /\ \A i \in DOMAIN transactions :
                    transactions'[i] =
                        [transactions[i] EXCEPT
                            !.member_id = IF @ \in DOMAIN members \ DOMAIN members'
                                          THEN NoId ELSE @]]_vars

(* After a member was deleted: an electronic transaction without a member   *)
(* next to one that still references the member that remains.               *)
C13_Witness ==
    /\ resp.op = "members_DELETE"
    /\ \E i, j \in DOMAIN transactions :
          /\ transactions[i].origin = "pix" /\ transactions[i].member_id = NoId
          /\ transactions[j].origin = "pix" /\ transactions[j].member_id \in DOMAIN members

C18_DuplicateChangesNothing ==
    [][(/\ resp'.op = "mp_webhook"
        /\ resp'.data.id # NULL
        /\ HasMpId(transactions, resp'.data.id))
          => transactions' = transactions]_vars

(* A delivery repeated after the row was confirmed and the roster changed:  *)
(* the resolver now gives another answer than the member the row keeps.     *)
C18_Witness ==
    /\ resp.op = "mp_webhook" /\ resp.outcome = "duplicate"
    /\ \E i \in RowsWithMpId(resp.data.id) :
          /\ transactions[i].status = "confirmado"
          /\ transactions[i].member_id
                # BestMatchId(transactions[i].payer_name, resp.rows)

\* C19: no operation removes a transaction: at every step the set of
\* transaction ids in the store stays or grows.
C19_TransactionsNeverDeleted ==
    [][DOMAIN transactions \subseteq DOMAIN transactions']_vars

(* Two transactions are still there after the only member and the only      *)
(* expense were deleted.                                                    *)
C19_Witness ==
    /\ resp.op = "members_DELETE"
    /\ members = <<>> /\ next_member_id > 1
    /\ expenses = <<>> /\ next_expense_id > 1
    /\ Cardinality(DOMAIN transactions) = 2
    /\ \E i \in DOMAIN transactions : transactions[i].origin = "pix"

\* C16: a confirm, a member delete or an expense delete that names an id the
\* store does not hold leaves the store unchanged and reports an error to the
\* caller, not success.
C16_NotFoundReported ==
    [][/\ \A id \in 1..MaxTx, type \in Types :
             (id \notin DOMAIN transactions /\ manage_transactions_confirm(id, type))
                => /\ resp'.http # 200
                   /\ UNCHANGED <<members, transactions, expenses>>
       /\ \A m_id \in 1..MaxMember :
             (m_id \notin DOMAIN members /\ manage_members_DELETE(m_id))
                => /\ resp'.http # 200
                   /\ UNCHANGED <<members, transactions, expenses>>
       /\ \A e_id \in 1..MaxExpense :
             (e_id \notin DOMAIN expenses /\ manage_expenses_DELETE(e_id))
                => /\ resp'.http # 200
                   /\ UNCHANGED <<members, transactions, expenses>>]_vars

----------------------------------------------------------------------------
(* Properties of the amounts entered (SpecIntake). *)

\* C15: every stored transaction and every stored expense has an amount > 0:
\* a manual_add, an expense creation or a delivery with an amount <= 0 adds
\* no row.
C15_AmountsPositive ==
    /\ \A i \in DOMAIN transactions : transactions[i].amount > 0
    /\ \A i \in DOMAIN expenses : expenses[i].amount > 0

----------------------------------------------------------------------------
(* Properties of concurrent deliveries (SpecConc). *)

\* C2: when handlers for the same payment id run on different workers, with
\* their steps interleaved in any order, at most one of them inserts a row: no
\* state holds two rows (committed or not) with that id, and no committed pair.
C2_AtMostOneInsert ==
    /\ \A i, j \in DOMAIN transactions :
          (transactions[i].mp_id # NULL /\ transactions[i].mp_id = transactions[j].mp_id)
              => i = j
    /\ \A v, w \in Workers :
          (wk[v].pc = "commit" /\ wk[v].inserted /\ wk[w].pc = "commit" /\ wk[w].inserted
             /\ wk[v].row.mp_id = wk[w].row.mp_id) => v = w
    /\ \A w \in Workers :
          (wk[w].pc = "commit" /\ wk[w].inserted) => ~HasMpId(transactions, wk[w].row.mp_id)

(* Two handlers of one payment id in flight together: one holds its        *)
(* uncommitted row while the other stands at its INSERT of the same id.    *)
C2_Witness ==
    \E v, w \in Workers :
        /\ v # w
        /\ wk[v].pc = "commit" /\ wk[v].inserted
        /\ wk[w].pc = "insert"
        /\ wk[w].payment_id = wk[v].row.mp_id

----------------------------------------------------------------------------
(* Properties of one delivery (SpecWebhook). *)

C6_FetchFailureDropsEvent ==
    [][(resp'.op = "mp_webhook" /\ resp'.status = "error")
          => /\ UNCHANGED store
             /\ resp'.fetches = 1]_vars

(* The row of a payment id was created by a delivery that came after one of *)
(* the same id whose fetch had failed.                                      *)
C6_Witness ==
    /\ resp.op = "mp_webhook"
    /\ resp.outcome = "inserted"
    /\ <<resp.data.id, "gateway">> \in log
    /\ Cardinality(RowsWithMpId(resp.data.id)) = 1

\* C7: a delivery changes the store only if the notification is a payment
\* event that carries a payment id and the gateway reports that payment
\* 'approved'; for every other kind, a missing id or another status the store
\* is unchanged.
C7_WritesOnlyApprovedPayments ==
    [][(/\ resp'.op = "mp_webhook"
        /\ ~(/\ (resp'.data.type = "payment" \/ resp'.data.action = "payment.created")
             /\ resp'.data.id # NULL
             /\ resp'.status = "approved"))
          => UNCHANGED store]_vars

(* A payment event with an id whose payment the gateway reports as not      *)
(* approved, delivered to a store that holds rows: none carries that id.    *)
C7_Witness ==
    /\ resp.op = "mp_webhook"
    /\ resp.data.type = "payment" /\ resp.data.id # NULL
    /\ resp.status \in {"pending", "rejected"}
    /\ DOMAIN transactions # {}
    /\ RowsWithMpId(resp.data.id) = {}

----------------------------------------------------------------------------
(* Properties of the identity resolver (SpecRoster). *)

MaxOf(S) == CHOOSE x \in S : \A y \in S : y <= x

(* The best score a payer name reaches on the roster of the members table. *)
MaxScore(payer_name) ==
    MaxOf({Score(payer_name, members[m].full_name) : m \in DOMAIN members})

FirstBest(payer_name, rows) ==
    CHOOSE i \in 1..Len(rows) :
        /\ \A j \in 1..Len(rows) :
               Score(payer_name, rows[j].full_name) <= Score(payer_name, rows[i].full_name)
        /\ \A j \in 1..(i - 1) :
               Score(payer_name, rows[j].full_name) < Score(payer_name, rows[i].full_name)

(* The last delivery inserted a row for a payer who reaches a maximum score *)
(* of at least 85 on the roster it read.                                    *)
ResolvedDelivery ==
    /\ resp.op = "mp_webhook" /\ resp.outcome = "inserted"
    /\ Len(resp.rows) > 0
    /\ \E i \in RowsWithMpId(resp.data.id) :
          Score(transactions[i].payer_name,
                resp.rows[FirstBest(transactions[i].payer_name, resp.rows)].full_name)
            >= Threshold

\* C9 (as claimed): when several members reach the same maximum score (>= 85),
\* two members with the same full name included, the row is linked to the
\* member the roster enumeration presented first.
C9_FirstEnumeratedWins ==
    ResolvedDelivery
       => \A i \in RowsWithMpId(resp.data.id) :
             transactions[i].member_id =
                 resp.rows[FirstBest(transactions[i].payer_name, resp.rows)].id

\* C9 (amended): among members with different full names that reach the same
\* maximum score (>= 85) the name enumerated first wins; when several members
\* bear that full name, the row is linked to the one of them enumerated last.
C9_FirstNameLastBearer ==
    ResolvedDelivery
       => \A i \in RowsWithMpId(resp.data.id) :
             LET first == FirstBest(transactions[i].payer_name, resp.rows)
                 bearers == {j \in 1..Len(resp.rows) :
                                resp.rows[j].full_name = resp.rows[first].full_name}
             IN transactions[i].member_id = resp.rows[MaxOf(bearers)].id

(* Two members with the same full name, enumerated newest first: the row is *)
(* linked to the one enumerated second.                                     *)
C9_Witness ==
    /\ ResolvedDelivery
    /\ Len(resp.rows) = 2
    /\ resp.rows[1].full_name = resp.rows[2].full_name
    /\ resp.rows[1].id > resp.rows[2].id
    /\ \E i \in RowsWithMpId(resp.data.id) : transactions[i].member_id = resp.rows[2].id

----------------------------------------------------------------------------
(* Properties of the monthly statement (SpecReport). *)

\* C10: on every statement the closing balance equals the previous balance
\* plus the inflow minus the outflow exactly, each amount being the
\* two-decimal value the statement shows (integer hundredths).
C10_BalanceEquation ==
    resp.op = "generate_report"
       => resp.final_balance = resp.prev_balance + resp.total_in - resp.total_out

(* The confirmed transactions of a period and its expenses, added up over   *)
(* the whole tables.                                                        *)
PeriodInflow(month, year) ==
    SumOver([i \in DOMAIN transactions |->
                IF /\ transactions[i].status = "confirmado"
                   /\ transactions[i].transaction_date.m = month
                   /\ transactions[i].transaction_date.y = year
                THEN transactions[i].amount ELSE 0],
            DOMAIN transactions)

PeriodOutflow(month, year) ==
    SumOver([i \in DOMAIN expenses |->
                IF /\ expenses[i].expense_date.m = month
                   /\ expenses[i].expense_date.y = year
                THEN expenses[i].amount ELSE 0],
            DOMAIN expenses)

\* C11: the inflow of a statement is the sum of the amounts of exactly the
\* transactions that are confirmed and dated in its month and year (a pending
\* one adds nothing, a confirmed one counts), the outflow the sum of that
\* period's expenses, and a period without rows gives 0 and 0, not an error.
C11_InflowOfConfirmed ==
    resp.op = "generate_report"
       => /\ resp.http = 200
          /\ resp.total_in * 10 = PeriodInflow(resp.month, resp.year)
          /\ resp.total_out * 10 = PeriodOutflow(resp.month, resp.year)

(* A statement of a period that holds a pending electronic transaction and  *)
(* one confirmed by the operator: the inflow is the confirmed one alone.    *)
C11_Witness ==
    /\ resp.op = "generate_report"
    /\ \E i, j \in DOMAIN transactions :
          /\ transactions[i].status = "pendente"
          /\ transactions[i].transaction_date = [y |-> resp.year, m |-> resp.month]
          /\ transactions[j].origin = "pix" /\ transactions[j].status = "confirmado"
          /\ transactions[j].transaction_date = [y |-> resp.year, m |-> resp.month]
          /\ resp.total_in * 10 = transactions[j].amount

\* C12: the live summary returns the inflow, outflow and balance that the
\* monthly aggregation gives for the current month of the current year with a
\* previous balance of 0, whatever the store holds (rows dated in the same
\* month of another year included).
C12_DashboardIsCurrentPeriod ==
    resp.op = "get_dashboard"
       => /\ resp.inflow = PeriodInflow(CURRENT_DATE.m, CURRENT_DATE.y)
          /\ resp.outflow = PeriodOutflow(CURRENT_DATE.m, CURRENT_DATE.y)
          /\ resp.balance = 0 + PeriodInflow(CURRENT_DATE.m, CURRENT_DATE.y)
                               - PeriodOutflow(CURRENT_DATE.m, CURRENT_DATE.y)

\* C17: on every statement the amounts listed in the inflow table add up to
\* the total inflow of the summary block, and those of the outflow table to
\* the total outflow.
C17_TablesAddUpToTotals ==
    resp.op = "generate_report"
       => /\ SumOver(resp.inflow_table, DOMAIN resp.inflow_table) = resp.total_in
          /\ SumOver(resp.outflow_table, DOMAIN resp.outflow_table) = resp.total_out

(* A statement that lists two inflows, one of them electronic, and one      *)
(* outflow.                                                                 *)
C17_Witness ==
    /\ resp.op = "generate_report"
    /\ Cardinality(DOMAIN resp.inflow_table) = 2
    /\ Cardinality(DOMAIN resp.outflow_table) = 1
    /\ resp.total_in > 0 /\ resp.total_out > 0
    /\ \E i \in DOMAIN transactions : transactions[i].origin = "pix"

----------------------------------------------------------------------------
(* Properties of deliveries interleaved with member deletions (SpecRace). *)

\* C20: in every state, also when a member is deleted between a handler's
\* roster read and its insert, the member reference of every transaction is
\* null or the id of a member the store holds.
C20_NoDanglingReference ==
    \A i \in DOMAIN transactions :
        transactions[i].member_id = NoId \/ transactions[i].member_id \in DOMAIN members

(* A handler lost its insert to a member deleted after its roster read (the *)
(* foreign key refused the row); a later delivery of the payment stored it  *)
(* linked to a member that exists.                                          *)
C20_Witness ==
    \E i \in DOMAIN transactions :
        /\ <<transactions[i].mp_id, "store">> \in log
        /\ transactions[i].member_id \in DOMAIN members

====
